---- MODULE Spec2Model ----
(***************************************************************************)
(* Model of the stateless session protocol of 10664kls/estatement:         *)
(* internal/auth (Login, RefreshToken, genToken, User.Compare, the claims  *)
(* accessor) and the two echo middlewares (PASETO and                      *)
(* SetContextClaimsFromToken).                                             *)
(*                                                                         *)
(* The go-paseto and bcrypt libraries are modelled by what their calls do: *)
(* a v4.local token decrypts only under the key and implicit assertion it  *)
(* was encrypted with, token times are carried as RFC3339 text (whole      *)
(* seconds), and the rules NotExpired / ValidAt reject only an instant     *)
(* strictly after exp (time.After) or strictly before iat/nbf.             *)
(***************************************************************************)
EXTENDS Integers, Sequences, FiniteSets, TLC

VARIABLES
    aKey,       \* Auth.aKey
    rKey,       \* Auth.rKey
    cfg,        \* the PASETOConfig the PASETO middleware was built with
    db,         \* rows of dbo.tb_user with rectype = 'ADD'
    now,        \* time.Now(), in clock ticks
    aTokens,    \* access tokens handed out so far
    rTokens,    \* refresh tokens handed out so far
    consumed,   \* refresh tokens a successful RefreshToken has exchanged
    res,        \* the last return of Login / RefreshToken, with its inputs
    req,        \* the HTTP request just served on a route behind the middlewares
    inflight,   \* the requests being processed at once, each at its own step
    ctxs        \* the context.Context values alive in the process

vars == <<aKey, rKey, cfg, db, now, aTokens, rTokens, consumed, res, req, inflight, ctxs>>

-----------------------------------------------------------------------------
(* Bounds of the model *)

TicksPerSecond == 2     \* clock resolution: ticks in one second
MaxSlack == 1           \* ticks the clock is followed past a boundary
MaxIssue == 2           \* token pairs handed out in one behaviour
MaxCtx == 4             \* context values alive at once
MaxInflight == 2        \* requests processed at once

-----------------------------------------------------------------------------
(* Time *)

Second == TicksPerSecond
Hour == 3600 * Second

\* now.Add(time.Hour)
AccessLifetime == Hour
\* now.Add(time.Hour * 7 * 24)
RefreshLifetime == Hour * 7 * 24

\* value.Format(time.RFC3339) read back by time.Parse: the sub-second part is lost
RFC3339(t) == t - (t % Second)

\* t.Before(u)
Before(t, u) == t < u

\* After with a second of leeway
AfterWithLeeway(t, u) == t > u + Second

\* t.After(u)
After(t, u) == t > u

\* The instants the clock is read at: process start, one access lifetime and
\* one refresh lifetime later, and the ticks right after each
Instants == {b + s : b \in {0, AccessLifetime, RefreshLifetime}, s \in 0 .. MaxSlack}

-----------------------------------------------------------------------------
(* Keys, users, passwords *)

Keys == {"k1", "k2"}

Usernames == {"alice", ""}
Products == {"p1", "p2"}
Plain == {"pw1", "pw2"}

\* bcrypt.GenerateFromPassword: a one-way hash of the bytes given; it fails on
\* more than 72 bytes.  A hash is text, like any password.
LongPw == "pw-longer-than-72-bytes"
BcryptFails(pw) == pw = LongPw
BcryptHash(pw) == "$2a$" \o pw

\* bcrypt.CompareHashAndPassword(hashed, password) == nil
CompareHashAndPassword(hashed, password) == hashed = BcryptHash(password)

\* What the pwd column may hold: a plaintext, the hash of one, or overlong bytes
Stored == {"pw1", BcryptHash("pw1"), LongPw}

\* What a caller may type as a password
Typed == Plain \cup {BcryptHash("pw1")}

\* type User struct (CreatedAt plays no part in the protocol)
Rows ==
    [ID : {"u1"}, Username : {"alice"}, ProductName : Products, password : {"pw1"}]
        \cup [ID : {"u1"}, Username : {"alice"}, ProductName : {"p1"}, password : Stored]

NilUser == [ID |-> "", Username |-> "", ProductName |-> "", password |-> "", nil |-> TRUE]

-----------------------------------------------------------------------------
(* Errors *)

Nil == [code |-> "OK", msg |-> ""]

\* rpcstatus.Error(codes.Unauthenticated, "Your credentials not valid. ...")
ErrCredentials ==
    [code |-> "Unauthenticated",
     msg |-> "Your credentials not valid. Please check and try again."]

\* status.Error(codes.Unauthenticated, "Your provided token not valid, ...")
ErrToken ==
    [code |-> "Unauthenticated",
     msg |-> "Your provided token not valid, Please provide a valid token."]

\* var ErrUserNotFound = errors.New("user not found")
ErrUserNotFound == [code |-> "error", msg |-> "user not found"]

\* any other error of row.Scan
ErrStore == [code |-> "error", msg |-> "sql: connection failure"]

\* bcrypt.ErrPasswordTooLong
ErrBcrypt == [code |-> "error", msg |-> "bcrypt: password length exceeds 72 bytes"]

\* rpcstatus.Error(codes.PermissionDenied, "You are not allowed to access ...")
ErrPermission ==
    [code |-> "PermissionDenied",
     msg |-> "You are not allowed to access this user (or it may not exist)."]

\* what a caller-supplied PASETOConfig.ErrorHandler returns
ErrCustom == [code |-> "custom", msg |-> "handled by ErrorHandler"]

-----------------------------------------------------------------------------
(* type Claims struct and its JSON form *)

\* &Claims{}
ZeroClaims == [ID |-> "", Username |-> "", ProductName |-> ""]

\* json.Marshal of a Claims: the fields under their json tags
MarshalClaims(c) == [id |-> c.ID, username |-> c.Username, productName |-> c.ProductName]

\* json.Unmarshal into a Claims: a tag that is absent leaves the zero value
UnmarshalClaims(j) ==
    [ID |-> IF "id" \in DOMAIN j THEN j.id ELSE "",
     Username |-> IF "username" \in DOMAIN j THEN j.username ELSE "",
     ProductName |-> IF "productName" \in DOMAIN j THEN j.productName ELSE ""]

-----------------------------------------------------------------------------
(* go-paseto: v4.local tokens *)

\* a nil implicit assertion
NoImplicit == ""

\* t.V4Encrypt(key, implicit): only this key and this implicit assertion open it
\* (the nonce is left out: two encryptions of one token are one text here)
V4Encrypt(claims, footer, key, implicit) ==
    [key |-> key, implicit |-> implicit, claims |-> claims, footer |-> footer]

\* text that is no token at all
Garbage ==
    [key |-> "", implicit |-> NoImplicit, claims |-> [sub |-> ""], footer |-> 0]

\* an issued token with a byte flipped: the authentication tag fits no key
Tamper(tok) == [tok EXCEPT !.key = ""]

\* what a caller can present, knowing the tokens in toks
Presentable(toks) == toks \cup {Tamper(t) : t \in toks} \cup {Garbage}

\* the decryption step of parser.ParseV4Local
Decrypts(key, tainted, implicit) ==
    /\ tainted.key = key
    /\ tainted.implicit = implicit

\* paseto.NotExpired(): time.Now().After(exp) is the failure
NotExpired(claims, at) ==
    /\ "exp" \in DOMAIN claims
    /\ ~After(at, claims.exp)

\* paseto.ValidAt(t): t.Before(iat), t.Before(nbf), t.After(exp) are the failures
ValidAt(claims, at) ==
    /\ {"iat", "nbf", "exp"} \subseteq DOMAIN claims
    /\ ~Before(at, claims.iat)
    /\ ~Before(at, claims.nbf)
    /\ ~After(at, claims.exp)

\* parser.ParseV4Local(key, tainted, implicit) with the rules NotExpired(), ValidAt(at)
ParseV4Local(key, tainted, implicit, at) ==
    IF /\ Decrypts(key, tainted, implicit)
       /\ NotExpired(tainted.claims, at)
       /\ ValidAt(tainted.claims, at)
    THEN [ok |-> TRUE, claims |-> tainted.claims, footer |-> tainted.footer]
    ELSE [ok |-> FALSE, claims |-> [sub |-> ""], footer |-> 0]

\* token.Get("profile", claims)
TokenGetProfile(token) ==
    IF "profile" \in DOMAIN token.claims
    THEN [ok |-> TRUE, claims |-> UnmarshalClaims(token.claims.profile)]
    ELSE [ok |-> FALSE, claims |-> ZeroClaims]

-----------------------------------------------------------------------------
(* internal/auth *)

\* type Token struct
NilPair == [nil |-> TRUE]

\* getUserByUsername: TOP 1 of the rows with this Username
getUserByUsername(store, username, storeErr) ==
    LET found == {r \in store : r.Username = username} IN
    IF storeErr THEN [user |-> NilUser, err |-> ErrStore]
    ELSE IF found = {} THEN [user |-> NilUser, err |-> ErrUserNotFound]
    ELSE [user |-> CHOOSE r \in found : TRUE, err |-> Nil]

\* (u *User) Compare(password)
Compare(u, password) ==
    IF BcryptFails(u.password)
    THEN [pass |-> FALSE, err |-> ErrBcrypt]
    ELSE [pass |-> CompareHashAndPassword(BcryptHash(u.password), password),
          err |-> Nil]

\* the token genToken builds, with the expiration set to exp
Envelope(user, at, exp) ==
    [sub |-> user.Username,
     iat |-> RFC3339(at),
     nbf |-> RFC3339(at),
     exp |-> RFC3339(exp),
     profile |-> MarshalClaims([ID |-> user.ID, Username |-> user.Username,
                                ProductName |-> user.ProductName])]

\* genToken encrypting both tokens with the access key
genTokenOneKey(user, at) ==
    [AccessToken |->
        V4Encrypt(Envelope(user, at, at + AccessLifetime), RFC3339(at), aKey, NoImplicit),
     RefreshToken |->
        V4Encrypt(Envelope(user, at, at + RefreshLifetime), RFC3339(at), aKey, NoImplicit)]

\* genToken reading the clock again, a second later, for the refresh token
genTokenTwoClocks(user, at) ==
    [AccessToken |->
        V4Encrypt(Envelope(user, at, at + AccessLifetime), RFC3339(at), aKey, NoImplicit),
     RefreshToken |->
        V4Encrypt(Envelope(user, at + Second, at + Second + RefreshLifetime),
                  RFC3339(at + Second), rKey, NoImplicit)]

\* (s *Auth) genToken(user), called when time.Now() is at
genToken(user, at) ==
    [AccessToken |->
        V4Encrypt(Envelope(user, at, at + AccessLifetime), RFC3339(at), aKey, NoImplicit),
     RefreshToken |->
        V4Encrypt(Envelope(user, at, at + RefreshLifetime), RFC3339(at), rKey, NoImplicit)]

\* Login returning the lookup's own error for an unknown user
LoginResultTellsNotFound(store, username, password, storeErr, at) ==
    LET got == getUserByUsername(store, username, storeErr)
        cmp == Compare(got.user, password)
    IN  IF got.err # Nil THEN [tok |-> NilPair, err |-> got.err]
        ELSE IF cmp.err # Nil \/ ~cmp.pass THEN [tok |-> NilPair, err |-> ErrCredentials]
        ELSE [tok |-> genToken(got.user, at), err |-> Nil]

\* Login checking the error of Compare and not what it reported
LoginResultIgnoresPass(store, username, password, storeErr, at) ==
    LET got == getUserByUsername(store, username, storeErr)
        cmp == Compare(got.user, password)
    IN  IF got.err = ErrUserNotFound THEN [tok |-> NilPair, err |-> ErrCredentials]
        ELSE IF got.err # Nil THEN [tok |-> NilPair, err |-> got.err]
        ELSE IF cmp.err # Nil THEN [tok |-> NilPair, err |-> ErrCredentials]
        ELSE [tok |-> genToken(got.user, at), err |-> Nil]

\* (s *Auth) Login(ctx, req): what it returns
LoginResult(store, username, password, storeErr, at) ==
    LET got == getUserByUsername(store, username, storeErr)
        cmp == Compare(got.user, password)
    IN  IF got.err = ErrUserNotFound THEN [tok |-> NilPair, err |-> ErrCredentials]
        ELSE IF got.err # Nil THEN [tok |-> NilPair, err |-> got.err]
        ELSE IF cmp.err # Nil \/ ~cmp.pass THEN [tok |-> NilPair, err |-> ErrCredentials]
        ELSE [tok |-> genToken(got.user, at), err |-> Nil]

\* RefreshToken issuing from the claims of the presented token, with no lookup
RefreshResultStale(store, tainted, storeErr, at) ==
    LET token == ParseV4Local(rKey, tainted, NoImplicit, at)
        prof == TokenGetProfile(token)
    IN  IF ~token.ok THEN [tok |-> NilPair, err |-> ErrCredentials]
        ELSE IF ~prof.ok THEN [tok |-> NilPair, err |-> ErrCredentials]
        ELSE [tok |-> genToken([ID |-> prof.claims.ID, Username |-> prof.claims.Username,
                                ProductName |-> prof.claims.ProductName], at),
              err |-> Nil]

\* RefreshToken returning the lookup's own error for a vanished user
RefreshResultTellsNotFound(store, tainted, storeErr, at) ==
    LET token == ParseV4Local(rKey, tainted, NoImplicit, at)
        prof == TokenGetProfile(token)
        got == getUserByUsername(store, prof.claims.Username, storeErr)
    IN  IF ~token.ok THEN [tok |-> NilPair, err |-> ErrCredentials]
        ELSE IF ~prof.ok THEN [tok |-> NilPair, err |-> ErrCredentials]
        ELSE IF got.err # Nil THEN [tok |-> NilPair, err |-> got.err]
        ELSE [tok |-> genToken(got.user, at), err |-> Nil]

\* RefreshToken with rotation: a refresh token is exchanged once
RefreshResultOneShot(store, tainted, storeErr, at) ==
    LET token == ParseV4Local(rKey, tainted, NoImplicit, at)
        prof == TokenGetProfile(token)
        got == getUserByUsername(store, prof.claims.Username, storeErr)
    IN  IF ~token.ok \/ tainted \in consumed THEN [tok |-> NilPair, err |-> ErrCredentials]
        ELSE IF ~prof.ok THEN [tok |-> NilPair, err |-> ErrCredentials]
        ELSE IF got.err = ErrUserNotFound THEN [tok |-> NilPair, err |-> ErrCredentials]
        ELSE IF got.err # Nil THEN [tok |-> NilPair, err |-> got.err]
        ELSE [tok |-> genToken(got.user, at), err |-> Nil]

\* (s *Auth) RefreshToken(ctx, req): what it returns
RefreshResult(store, tainted, storeErr, at) ==
    LET token == ParseV4Local(rKey, tainted, NoImplicit, at)
        prof == TokenGetProfile(token)
        got == getUserByUsername(store, prof.claims.Username, storeErr)
    IN  IF ~token.ok THEN [tok |-> NilPair, err |-> ErrCredentials]
        ELSE IF ~prof.ok THEN [tok |-> NilPair, err |-> ErrCredentials]
        ELSE IF got.err = ErrUserNotFound THEN [tok |-> NilPair, err |-> ErrCredentials]
        ELSE IF got.err # Nil THEN [tok |-> NilPair, err |-> got.err]
        ELSE [tok |-> genToken(got.user, at), err |-> Nil]

-----------------------------------------------------------------------------
(* The claims accessor *)

\* a context.Context, as far as the key claimsKey goes
Background == [set |-> FALSE, claims |-> ZeroClaims]

\* ContextWithClaims keeping the claims a context already carries
ContextWithClaimsKeepFirst(ctx, claims) ==
    IF ctx.set THEN ctx ELSE [set |-> TRUE, claims |-> claims]

\* ContextWithClaims(ctx, claims)
ContextWithClaims(ctx, claims) == [set |-> TRUE, claims |-> claims]

\* ClaimsFromContext(ctx)
ClaimsFromContext(ctx) == IF ctx.set THEN ctx.claims ELSE ZeroClaims

\* Profile returning the lookup's own error for a username that does not resolve
ProfileTellsNotFound(ctx, store, storeErr) ==
    LET claims == ClaimsFromContext(ctx)
        got == getUserByUsername(store, claims.Username, storeErr)
    IN  [user |-> got.user, err |-> got.err]

\* (s *Auth) Profile(ctx): what it returns
Profile(ctx, store, storeErr) ==
    LET claims == ClaimsFromContext(ctx)
        got == getUserByUsername(store, claims.Username, storeErr)
    IN  IF got.err = ErrUserNotFound THEN [user |-> NilUser, err |-> ErrPermission]
        ELSE [user |-> got.user, err |-> got.err]

-----------------------------------------------------------------------------
(* The middlewares *)

ContextKeys == {"token", "user"}
Implicits == {NoImplicit, "imp"}

\* type PASETOConfig struct; ErrorHandler is TRUE when one is supplied, and
\* Rules is empty
Configs ==
    [ErrorHandler : BOOLEAN, SymmetricKey : Keys, Implicit : Implicits,
     ContextKey : {"", "user"}]

\* PASETO(cfg): if cfg.ContextKey == "" { cfg.ContextKey = "token" }
EffectiveContextKey(c) == IF c.ContextKey = "" THEN "token" ELSE c.ContextKey

\* a value of the echo context store that is no *paseto.Token
NoParsed == [ok |-> FALSE, claims |-> [sub |-> ""], footer |-> 0]

\* the Authorization header: its scheme word and what follows the separator
NoHeader == [scheme |-> "", hasCred |-> FALSE, cred |-> Garbage]
Headers(toks) ==
    {NoHeader, [scheme |-> "Bearer", hasCred |-> FALSE, cred |-> Garbage]}
        \cup [scheme : {"Bearer"}, hasCred : {TRUE}, cred : Presentable(toks)]
        \cup [scheme : {"Basic"}, hasCred : {TRUE}, cred : toks]

\* pasetoFromHeader taking a credential of any scheme
pasetoFromHeaderAnyScheme(header, authScheme) ==
    IF header.hasCred
    THEN [ok |-> TRUE, tainted |-> header.cred]
    ELSE [ok |-> FALSE, tainted |-> Garbage]

\* pasetoFromHeader(echo.HeaderAuthorization, "Bearer")
pasetoFromHeader(header, authScheme) ==
    IF header.hasCred /\ header.scheme = authScheme
    THEN [ok |-> TRUE, tainted |-> header.cred]
    ELSE [ok |-> FALSE, tainted |-> Garbage]

\* what the PASETO middleware returns for a failure
Reject(c) == IF c.ErrorHandler THEN ErrCustom ELSE ErrToken

\* parseTokenToClaims reading the key "claims" where genToken wrote "profile"
parseTokenToClaimsWrongKey(token) ==
    IF ~token.ok THEN ZeroClaims
    ELSE IF "claims" \in DOMAIN token.claims THEN UnmarshalClaims(token.claims.claims)
    ELSE ZeroClaims

\* parseTokenToClaims(token): the error of token.Get is dropped
parseTokenToClaims(token) ==
    IF ~token.ok THEN ZeroClaims ELSE TokenGetProfile(token).claims

\* contextClaimsFromToken(ctx, token)
contextClaimsFromToken(ctx, token) == ContextWithClaims(ctx, parseTokenToClaims(token))

\* no request in flight
Idle ==
    [pc |-> "idle", header |-> NoHeader, skip |-> FALSE, at |-> 0,
     store |-> [k \in ContextKeys |-> NoParsed], ctx |-> Background,
     verified |-> FALSE, handled |-> FALSE, seen |-> ZeroClaims, err |-> Nil,
     route |-> "", storeErr |-> FALSE, inner |-> Nil, profile |-> NilUser]

\* PASETO failing open: a token that does not verify still reaches next(c)
PASETOFailOpen(c, r, at) ==
    LET got == pasetoFromHeader(r.header, "Bearer")
        token == ParseV4Local(c.SymmetricKey, got.tainted, c.Implicit, at)
    IN  IF r.skip THEN [r EXCEPT !.pc = "next", !.at = at]
        ELSE IF ~got.ok THEN [r EXCEPT !.pc = "done", !.at = at, !.err = Reject(c)]
        ELSE IF ~token.ok THEN [r EXCEPT !.pc = "next", !.at = at]
        ELSE [r EXCEPT !.pc = "next", !.at = at, !.verified = TRUE,
                       !.store[EffectiveContextKey(c)] = token]

\* errors.New("missing or malformed paseto")
ErrMissing == [code |-> "error", msg |-> "missing or malformed paseto"]

\* PASETO returning the extractor's own error for a missing credential
PASETOTellsMissing(c, r, at) ==
    LET got == pasetoFromHeader(r.header, "Bearer")
        token == ParseV4Local(c.SymmetricKey, got.tainted, c.Implicit, at)
    IN  IF r.skip THEN [r EXCEPT !.pc = "next", !.at = at]
        ELSE IF ~got.ok THEN [r EXCEPT !.pc = "done", !.at = at, !.err = ErrMissing]
        ELSE IF ~token.ok THEN [r EXCEPT !.pc = "done", !.at = at, !.err = Reject(c)]
        ELSE [r EXCEPT !.pc = "next", !.at = at, !.verified = TRUE,
                       !.store[EffectiveContextKey(c)] = token]

\* PASETO running the extraction and the verification on every request,
\* whatever cfg.Skipper says
PASETOIgnoresSkipper(c, r, at) ==
    LET got == pasetoFromHeader(r.header, "Bearer")
        token == ParseV4Local(c.SymmetricKey, got.tainted, c.Implicit, at)
    IN  IF ~got.ok THEN [r EXCEPT !.pc = "done", !.at = at, !.err = Reject(c)]
        ELSE IF ~token.ok THEN [r EXCEPT !.pc = "done", !.at = at, !.err = Reject(c)]
        ELSE [r EXCEPT !.pc = "next", !.at = at, !.verified = TRUE,
                       !.store[EffectiveContextKey(c)] = token]

\* the handler PASETO(c) wraps around next, entered when time.Now() is at:
\* pc = "next" when it calls next(c), "done" when it returns an error itself
PASETO(c, r, at) ==
    LET got == pasetoFromHeader(r.header, "Bearer")
        token == ParseV4Local(c.SymmetricKey, got.tainted, c.Implicit, at)
    IN  IF r.skip THEN [r EXCEPT !.pc = "next", !.at = at]
        ELSE IF ~got.ok THEN [r EXCEPT !.pc = "done", !.at = at, !.err = Reject(c)]
        ELSE IF ~token.ok THEN [r EXCEPT !.pc = "done", !.at = at, !.err = Reject(c)]
        ELSE [r EXCEPT !.pc = "next", !.at = at, !.verified = TRUE,
                       !.store[EffectiveContextKey(c)] = token]

\* the handler SetContextClaimsFromToken wraps around next: it always calls next(c)
SetContextClaimsFromToken(r) ==
    LET token == r.store["token"] IN
    IF ~token.ok THEN r
    ELSE [r EXCEPT !.ctx = contextClaimsFromToken(r.ctx, token)]

\* the route's handler: it reads the claims of its request and answers
Handler(r) ==
    [r EXCEPT !.pc = "done", !.handled = TRUE, !.seen = ClaimsFromContext(r.ctx)]

\* the route's chain: PASETO(c), then SetContextClaimsFromToken, then the handler
Chain(c, r, at) ==
    LET r1 == PASETO(c, r, at) IN
    IF r1.pc = "done" THEN r1 ELSE Handler(SetContextClaimsFromToken(r1))

\* badJSON(): the error the server's handlers return when c.Bind fails
badJSON ==
    [code |-> "InvalidArgument", msg |-> "Request body must be a valid JSON."]

\* (s *Server) getProfile(c): inner is what Profile returned, err what the
\* handler returns, profile the body of its 200 answer
getProfile(r, store, storeErr) ==
    LET out == Profile(r.ctx, store, storeErr) IN
    [r EXCEPT !.pc = "done", !.handled = TRUE, !.seen = ClaimsFromContext(r.ctx),
              !.storeErr = storeErr, !.inner = out.err,
              !.err = IF out.err # Nil THEN badJSON ELSE Nil,
              !.profile = IF out.err # Nil THEN NilUser ELSE out.user]

\* the chain of GET /v1/auth/me
ChainProfile(c, r, store, storeErr, at) ==
    LET r1 == PASETO(c, r, at) IN
    IF r1.pc = "done" THEN r1
    ELSE getProfile(SetContextClaimsFromToken(r1), store, storeErr)

-----------------------------------------------------------------------------
(* Actions *)

NoCall ==
    [op |-> "none", username |-> "", password |-> "", token |-> Garbage,
     storeErr |-> FALSE, again |-> FALSE, tok |-> NilPair, err |-> Nil]

\* the tokens of a returned pair join what callers hold
Hand(out) ==
    /\ out.err = Nil => Cardinality(rTokens \cup {out.tok.RefreshToken}) <= MaxIssue
    /\ aTokens' = IF out.err = Nil THEN aTokens \cup {out.tok.AccessToken} ELSE aTokens
    /\ rTokens' = IF out.err = Nil THEN rTokens \cup {out.tok.RefreshToken} ELSE rTokens

\* no call and no request is being answered
Settled == res = NoCall /\ req = Idle

\* the answer of the call or request just handled goes out to the caller
Return ==
    /\ ~Settled
    /\ res' = NoCall
    /\ req' = Idle
    /\ UNCHANGED <<inflight, ctxs, aKey, rKey, cfg, db, now, aTokens, rTokens, consumed>>

\* time passes
Advance(t) ==
    /\ Settled
    /\ t > now
    /\ now' = t
    /\ UNCHANGED <<inflight, ctxs, aKey, rKey, cfg, db, aTokens, rTokens, consumed, res, req>>

\* another system writes dbo.tb_user: the row of a username is set
PutRow(r) ==
    /\ Settled
    /\ r \notin db
    /\ db' = {x \in db : x.Username # r.Username} \cup {r}
    /\ UNCHANGED <<inflight, ctxs, aKey, rKey, cfg, now, aTokens, rTokens, consumed, res, req>>

\* another system writes dbo.tb_user: the row of a username goes
DeleteRow(u) ==
    /\ Settled
    /\ \E x \in db : x.Username = u
    /\ db' = {x \in db : x.Username # u}
    /\ UNCHANGED <<inflight, ctxs, aKey, rKey, cfg, now, aTokens, rTokens, consumed, res, req>>

\* POST /v1/auth/login
Login(username, password, storeErr) ==
    LET out == LoginResult(db, username, password, storeErr, now) IN
    /\ Settled
    /\ Hand(out)
    /\ res' = [op |-> "Login", username |-> username, password |-> password,
               token |-> Garbage, storeErr |-> storeErr, again |-> FALSE,
               tok |-> out.tok, err |-> out.err]
    /\ UNCHANGED req
    /\ UNCHANGED <<inflight, ctxs, aKey, rKey, cfg, db, now, consumed>>

\* POST /v1/auth/token
RefreshToken(tainted, storeErr) ==
    LET out == RefreshResult(db, tainted, storeErr, now) IN
    /\ Settled
    /\ Hand(out)
    /\ consumed' = IF out.err = Nil THEN consumed \cup {tainted} ELSE consumed
    /\ res' = [op |-> "RefreshToken", username |-> "", password |-> "",
               token |-> tainted, storeErr |-> storeErr, again |-> tainted \in consumed,
               tok |-> out.tok, err |-> out.err]
    /\ UNCHANGED req
    /\ UNCHANGED <<inflight, ctxs, aKey, rKey, cfg, db, now>>

\* a request to a route behind the middlewares is served
Serve(header, skip) ==
    /\ Settled
    /\ req' = Chain(cfg, [Idle EXCEPT !.header = header, !.skip = skip], now)
    /\ UNCHANGED res
    /\ UNCHANGED <<inflight, ctxs, aKey, rKey, cfg, db, now, aTokens, rTokens, consumed>>

\* GET /v1/auth/me
ServeProfile(header, skip, storeErr) ==
    /\ Settled
    /\ req' = ChainProfile(cfg, [Idle EXCEPT !.header = header, !.skip = skip,
                                             !.route = "/v1/auth/me"],
                           db, storeErr, now)
    /\ UNCHANGED res
    /\ UNCHANGED <<inflight, ctxs, aKey, rKey, cfg, db, now, aTokens, rTokens, consumed>>

-----------------------------------------------------------------------------
(* Specifications *)

DefaultConfig ==
    [ErrorHandler |-> FALSE, SymmetricKey |-> aKey, Implicit |-> NoImplicit,
     ContextKey |-> ""]

AliceRow == [ID |-> "u1", Username |-> "alice", ProductName |-> "p1", password |-> "pw1"]

InitCommon ==
    /\ aKey = "k1"      \* up to the names of the keys
    /\ rKey \in Keys
    /\ now \in 0 .. MaxSlack
    /\ aTokens = {}
    /\ rTokens = {}
    /\ consumed = {}
    /\ res = NoCall
    /\ req = Idle
    /\ inflight = <<>>
    /\ ctxs = <<>>

\* Login over a changing credential store
InitLogin ==
    /\ InitCommon
    /\ cfg = DefaultConfig
    /\ db = {}

NextLogin ==
    \/ \E r \in Rows : PutRow(r)
    \/ \E u \in Usernames : DeleteRow(u)
    \/ \E u \in Usernames, p \in Typed, e \in BOOLEAN : Login(u, p, e)
    \/ Return

SpecLogin == InitLogin /\ [][NextLogin]_vars

\* RefreshToken over time and a changing credential store
InitRefresh ==
    /\ InitCommon
    /\ cfg = DefaultConfig
    /\ db = {AliceRow}

NextRefresh ==
    \/ \E t \in Instants : Advance(t)
    \/ \E r \in {x \in Rows : x.password = "pw1"} : PutRow(r)
    \/ \E u \in Usernames : DeleteRow(u)
    \/ Login("alice", "pw1", FALSE)
    \/ \E t \in Presentable(aTokens \cup rTokens), e \in BOOLEAN : RefreshToken(t, e)
    \/ Return

SpecRefresh == InitRefresh /\ [][NextRefresh]_vars

\* the middlewares under every PASETOConfig, over a credential store that holds
\* one identity and does not change
InitMw ==
    /\ InitCommon
    /\ cfg \in Configs
    /\ db \in {{r} : r \in {x \in Rows : x.password = "pw1"}}

NextMw ==
    \/ \E t \in Instants : Advance(t)
    \/ Login("alice", "pw1", FALSE)
    \/ \E t \in Presentable(aTokens \cup rTokens) : RefreshToken(t, FALSE)
    \/ \E h \in Headers(aTokens \cup rTokens), s \in BOOLEAN : Serve(h, s)
    \/ Return

SpecMw == InitMw /\ [][NextMw]_vars

\* a row whose Username is the empty string
AnonRow == [ID |-> "u0", Username |-> "", ProductName |-> "p1", password |-> "pw1"]

\* a row whose pwd column bcrypt cannot hash
AliceLongRow == [AliceRow EXCEPT !.password = LongPw]

\* the routes of Server.Install that answer about identities: login, token and
\* me, behind a PASETO that verifies under the access key, over time and a
\* changing credential store
InitApi ==
    /\ InitCommon
    /\ cfg \in {c \in Configs : c.SymmetricKey = aKey /\ c.Implicit = NoImplicit}
    /\ db = {AliceRow}

NextApi ==
    \/ \E t \in Instants : Advance(t)
    \/ \E r \in {AliceRow, AliceLongRow, AnonRow} : PutRow(r)
    \/ \E u \in Usernames : DeleteRow(u)
    \/ \E p \in Plain, e \in BOOLEAN : Login("alice", p, e)
    \/ \E t \in Presentable(aTokens \cup rTokens), e \in BOOLEAN : RefreshToken(t, e)
    \/ \E h \in Headers(aTokens \cup rTokens), s \in BOOLEAN, e \in BOOLEAN :
            ServeProfile(h, s, e)
    \/ Return

SpecApi == InitApi /\ [][NextApi]_vars

-----------------------------------------------------------------------------
(* Vocabulary of the properties *)

\* the identity attributes a token carries for a row
UserClaims(row) == [ID |-> row.ID, Username |-> row.Username, ProductName |-> row.ProductName]

\* the claims embedded in a token
Embedded(tok) == UnmarshalClaims(tok.claims.profile)

\* the rows the credential store resolves a username to
Resolves(username) == {x \in db : x.Username = username}

HasTimes(tok) == {"iat", "nbf", "exp", "profile"} \subseteq DOMAIN tok.claims

\* Login / RefreshToken returned the uniform authentication failure and no pair
AuthenticationFailed == res.err = ErrCredentials /\ res.tok = NilPair

\* Login / RefreshToken returned a pair and no error
Issued == res.err = Nil /\ res.tok # NilPair

\* the request just served ran the authenticator on a bearer credential
Authenticated == req.pc = "done" /\ ~req.skip /\ req.header.scheme = "Bearer" /\ req.header.hasCred

\* the authenticator ended the request itself, and no handler ran
Rejected == ~req.handled /\ req.err = Reject(cfg) /\ req.ctx = Background

-----------------------------------------------------------------------------
(* C1: domain isolation *)

\* C1 as claimed: under every configuration, RefreshToken rejects every token
\* issued as an access token, and the authenticator (verifying under the access
\* key) rejects every token issued as a refresh token.
C1_DomainIsolation ==
    /\ res.op = "RefreshToken" /\ res.token \in aTokens => AuthenticationFailed
    /\ Authenticated /\ cfg.SymmetricKey = aKey /\ req.header.cred \in rTokens => Rejected

\* C1 amended: the same, in every configuration whose access key and refresh key
\* are different keys.
C1_DomainIsolationDistinctKeys == aKey # rKey => C1_DomainIsolation

C1_Witness ==
    /\ aKey # rKey
    /\ res.op = "RefreshToken"
    /\ res.token \in aTokens
    /\ now < res.token.claims.exp
    /\ AuthenticationFailed

-----------------------------------------------------------------------------
(* C2: the expiry boundary *)

\* C2 as claimed: a token whose expiration is at or before the verification time
\* is rejected by RefreshToken and by the authenticator; so is one verified at
\* exactly its expiration instant.
C2_ExpiryBoundary ==
    /\ res.op = "RefreshToken" /\ HasTimes(res.token) /\ res.token.claims.exp <= now
        => AuthenticationFailed
    /\ Authenticated /\ HasTimes(req.header.cred) /\ req.header.cred.claims.exp <= req.at
        => Rejected

\* C2 amended: a token whose expiration is strictly before the verification time
\* is rejected by RefreshToken and by the authenticator; a token of the right
\* domain verified at exactly its expiration instant is still accepted.
C2_ExpiryStrict ==
    /\ res.op = "RefreshToken" /\ HasTimes(res.token) /\ res.token.claims.exp < now
        => AuthenticationFailed
    /\ Authenticated /\ HasTimes(req.header.cred) /\ req.header.cred.claims.exp < req.at
        => Rejected
    /\ res.op = "RefreshToken" /\ res.token \in rTokens /\ res.token.claims.exp = now
        => Issued
    /\ Authenticated /\ req.header.cred \in aTokens /\ req.header.cred.claims.exp = req.at
            /\ cfg.SymmetricKey = aKey /\ cfg.Implicit = NoImplicit
        => req.verified /\ req.handled

C2_Witness ==
    /\ res.op = "RefreshToken"
    /\ res.token \in rTokens
    /\ res.token.claims.exp < now
    /\ AuthenticationFailed

-----------------------------------------------------------------------------
(* C3: round trip *)

\* C3: at every time t with iat <= t < exp, a refresh token verifies in
\* RefreshToken and an access token verifies in the authenticator (under the
\* access key and the implicit assertion of issuance), and what is read back
\* from it is the claims of the identity it was issued for.
C3_RoundTrip ==
    /\ res.op = "RefreshToken" /\ res.token \in rTokens
            /\ res.token.claims.iat <= now /\ now < res.token.claims.exp
        => /\ Issued
           /\ \E row \in db : Embedded(res.token) = UserClaims(row)
    /\ Authenticated /\ req.header.cred \in aTokens
            /\ cfg.SymmetricKey = aKey /\ cfg.Implicit = NoImplicit
            /\ req.header.cred.claims.iat <= req.at /\ req.at < req.header.cred.claims.exp
        => /\ req.verified
           /\ \E row \in db :
                parseTokenToClaims(req.store[EffectiveContextKey(cfg)]) = UserClaims(row)

C3_Witness ==
    /\ Authenticated
    /\ req.header.cred \in aTokens
    /\ req.header.cred.claims.iat < req.at
    /\ req.at < req.header.cred.claims.exp
    /\ req.verified
    /\ \E row \in db :
          /\ row.ProductName = "p2"
          /\ parseTokenToClaims(req.store[EffectiveContextKey(cfg)]) = UserClaims(row)

-----------------------------------------------------------------------------
(* C4: uniform login failure *)

\* the typed password is wrong for the row, whether the pwd column is read as a
\* plaintext or as a hash
WrongPassword(row, typed) == typed # row.password /\ row.password # BcryptHash(typed)

\* C4: Login with a username the store does not hold, and Login with a username
\* it holds and a wrong password (or a comparison that errors), return the same
\* error, code Unauthenticated with the one message, and no token pair.
C4_UniformLoginFailure ==
    /\ res.op = "Login" /\ ~res.storeErr /\ Resolves(res.username) = {}
        => AuthenticationFailed
    /\ res.op = "Login" /\ ~res.storeErr
        => \A row \in Resolves(res.username) :
              WrongPassword(row, res.password) \/ BcryptFails(row.password)
                  => AuthenticationFailed

C4_Witness ==
    /\ res.op = "Login"
    /\ ~res.storeErr
    /\ \E row \in Resolves(res.username) : WrongPassword(row, res.password)
    /\ AuthenticationFailed

-----------------------------------------------------------------------------
(* C5: password comparison *)

\* C5 as claimed: when the stored verifier is the adaptive hash of a password P,
\* Compare reports a match for P and for no other password.
C5_CompareAgainstVerifier ==
    res.op = "Login" /\ ~res.storeErr
        => \A row \in Resolves(res.username) :
              (\E p \in Plain : row.password = BcryptHash(p))
                  => (Compare(row, res.password).pass
                            <=> row.password = BcryptHash(res.password))

-----------------------------------------------------------------------------
(* C6: refresh monotonicity *)

\* C6: a successful RefreshToken returns a pair whose claims are the store's
\* current attributes for the username of the presented token, and whose access
\* token verifies under the access key at the time of the refresh.
C6_RefreshMonotonicity ==
    res.op = "RefreshToken" /\ Issued
        => \E row \in Resolves(Embedded(res.token).Username) :
              /\ Embedded(res.tok.AccessToken) = UserClaims(row)
              /\ Embedded(res.tok.RefreshToken) = UserClaims(row)
              /\ ParseV4Local(aKey, res.tok.AccessToken, NoImplicit, now).ok

C6_Witness ==
    /\ res.op = "RefreshToken"
    /\ Issued
    /\ Embedded(res.tok.AccessToken) # Embedded(res.token)
    /\ res.token.claims.exp - RefreshLifetime + AccessLifetime < now

-----------------------------------------------------------------------------
(* C7: refresh failure mapping *)

Malformed(t) == t = Garbage
Tampered(t) == \E x \in aTokens \cup rTokens : t = Tamper(x)
Expired(t, at) == HasTimes(t) /\ t.claims.exp < at

\* C7: RefreshToken returns the Unauthenticated error and no pair whenever the
\* presented string is malformed, tampered, of the access domain or expired, and
\* whenever it verifies but its username no longer resolves in the store.
C7_RefreshFailureMapping ==
    /\ res.op = "RefreshToken"
            /\ (\/ Malformed(res.token)
                \/ Tampered(res.token)
                \/ res.token \in aTokens /\ aKey # rKey
                \/ Expired(res.token, now))
        => AuthenticationFailed
    /\ res.op = "RefreshToken" /\ res.token \in rTokens /\ ~res.storeErr
            /\ Resolves(Embedded(res.token).Username) = {}
        => AuthenticationFailed

C7_Witness ==
    /\ res.op = "RefreshToken"
    /\ res.token \in rTokens
    /\ ~Expired(res.token, now)
    /\ ~res.storeErr
    /\ Resolves(Embedded(res.token).Username) = {}
    /\ AuthenticationFailed

-----------------------------------------------------------------------------
(* C8: no revocation on refresh *)

\* C8: a refresh token that a successful RefreshToken has already exchanged,
\* presented again while unexpired and while its username resolves, is exchanged
\* again for a pair issued at that time.
C8_NoRevocation ==
    res.op = "RefreshToken" /\ res.again /\ ~res.storeErr
            /\ now <= res.token.claims.exp
            /\ Resolves(Embedded(res.token).Username) # {}
        => /\ Issued
           /\ res.tok.RefreshToken.claims.iat = RFC3339(now)

C8_Witness ==
    /\ res.op = "RefreshToken"
    /\ res.again
    /\ Issued
    /\ res.tok.RefreshToken # res.token

-----------------------------------------------------------------------------
(* C9: reject before handler *)

\* C9: when the authenticator is not skipped and the bearer token is malformed,
\* tampered, encrypted for another key or implicit assertion, or expired, the
\* handler is not invoked and the request ends with the Unauthenticated error or
\* with what the configured ErrorHandler returns.
C9_RejectBeforeHandler ==
    Authenticated
        /\ (\/ Malformed(req.header.cred)
            \/ Tampered(req.header.cred)
            \/ req.header.cred.key # cfg.SymmetricKey
            \/ req.header.cred.implicit # cfg.Implicit
            \/ Expired(req.header.cred, req.at))
        => Rejected

C9_Witness ==
    /\ Authenticated
    /\ req.header.cred \in aTokens
    /\ Expired(req.header.cred, req.at)
    /\ Rejected

-----------------------------------------------------------------------------
(* C10: claims propagation *)

\* C10 as claimed: under every PASETOConfig, when the bearer token passes
\* verification the handler runs and reads, through ClaimsFromContext, the claims
\* embedded in that token.
C10_ClaimsPropagation ==
    req.pc = "done" /\ req.verified
        => /\ req.handled
           /\ req.seen = Embedded(req.header.cred)

-----------------------------------------------------------------------------
(* C11: a missing credential *)

\* the request just served carried no credential the extractor takes: no
\* Authorization header, or one that is not "Bearer" and a token
NoCredential == req.pc = "done" /\ ~(req.header.hasCred /\ req.header.scheme = "Bearer")

\* the request went on to the handler with no error and no claims attached
PassedOnAnonymous == req.handled /\ req.err = Nil /\ req.ctx = Background

\* C11 as claimed: when the authenticator runs (it is not skipped) on a request
\* whose credential header is absent or does not carry the Bearer scheme, it does
\* not reject the request: the request is passed on with no claims attached.
C11_MissingCredentialPasses == NoCredential /\ ~req.skip => PassedOnAnonymous

\* C11 amended: on such a request the authenticator, when it is not skipped,
\* rejects the request itself (Unauthenticated, or what the ErrorHandler
\* returns) and no handler runs; only when the skip predicate returns true is the
\* request passed on with no claims attached.
C11_MissingCredentialRejected ==
    /\ NoCredential /\ ~req.skip => Rejected
    /\ NoCredential /\ req.skip => PassedOnAnonymous

C11_Witness ==
    /\ NoCredential
    /\ ~req.skip
    /\ req.header.scheme = "Basic"
    /\ req.header.cred \in aTokens
    /\ cfg.SymmetricKey = aKey
    /\ cfg.Implicit = NoImplicit
    /\ Rejected

-----------------------------------------------------------------------------
(* C17: an anonymous request on a skipped route *)

\* C17: when the skip predicate returns true for a request with no credential
\* header, PASETO and SetContextClaimsFromToken invoke the handler without an
\* error, and the handler reads zero-value Claims.
C17_AnonymousOnSkippedRoute ==
    req.pc = "done" /\ req.skip /\ req.header = NoHeader
        => /\ req.handled
           /\ req.err = Nil
           /\ req.seen = ZeroClaims

C17_Witness ==
    /\ req.pc = "done"
    /\ req.skip
    /\ req.header = NoHeader
    /\ cfg.ErrorHandler
    /\ req.handled
    /\ req.seen = ZeroClaims

-----------------------------------------------------------------------------
(* C15: the shape of a token pair *)

\* the username the call just answered was about
Caller == IF res.op = "Login" THEN res.username ELSE Embedded(res.token).Username

\* C15: in every pair Login or RefreshToken returns, both tokens carry the claims
\* of the identity, the username as subject, one issued-at time, a not-before
\* equal to it and a footer holding it; the access token expires exactly 1 hour
\* and the refresh token exactly 7 days after issued-at, so the refresh token
\* outlives the access token.
C15_TokenPairShape ==
    Issued =>
        LET a == res.tok.AccessToken
            r == res.tok.RefreshToken
        IN  /\ \E row \in Resolves(Caller) :
                  /\ Embedded(a) = UserClaims(row)
                  /\ Embedded(r) = UserClaims(row)
                  /\ a.claims.sub = row.Username
                  /\ r.claims.sub = row.Username
            /\ a.claims.iat = r.claims.iat
            /\ a.claims.nbf = a.claims.iat
            /\ r.claims.nbf = r.claims.iat
            /\ a.footer = a.claims.iat
            /\ r.footer = r.claims.iat
            /\ a.claims.exp = a.claims.iat + 3600 * Second
            /\ r.claims.exp = r.claims.iat + 7 * 24 * 3600 * Second
            /\ r.claims.exp > a.claims.exp

C15_Witness ==
    /\ res.op = "RefreshToken"
    /\ Issued
    /\ now % Second # 0
    /\ now > AccessLifetime
    /\ res.tok.RefreshToken.claims.exp = RFC3339(now) + RefreshLifetime

-----------------------------------------------------------------------------
(* C12: the profile of a vanished identity *)

\* GET /v1/auth/me reached its handler
ProfileServed == req.route = "/v1/auth/me" /\ req.handled

\* C12 as claimed: when the username of the request's verified claims no longer
\* resolves in the credential store, Profile fails with PermissionDenied and
\* that is the error the caller of GET /v1/auth/me gets.
C12_VanishedIdentity ==
    ProfileServed /\ req.verified /\ req.ctx.set /\ ~req.storeErr
            /\ Resolves(ClaimsFromContext(req.ctx).Username) = {}
        => /\ req.inner.code = "PermissionDenied"
           /\ req.err.code = "PermissionDenied"

-----------------------------------------------------------------------------
(* C13: zero-value claims are anonymous *)

\* C13 as claimed: whatever the credential store holds, Profile called with a
\* context that has no claims attached never returns an Identity.
C13_ZeroClaimsAnonymous ==
    ProfileServed /\ ~req.ctx.set => req.inner # Nil /\ req.profile = NilUser

-----------------------------------------------------------------------------
(* C14: one rejection message *)

\* what Login answers for a username nobody has
TheRejection == LoginResult({}, "ghost", "pw1", FALSE, 0).err

\* Login failed on the credentials: unknown user, wrong password or a comparison
\* that errors
LoginRefused ==
    /\ res.op = "Login"
    /\ ~res.storeErr
    /\ \A row \in Resolves(res.username) : ~Compare(row, res.password).pass

\* RefreshToken failed on the token (invalid, expired, wrong domain) or on the
\* identity it names
RefreshRefused ==
    /\ res.op = "RefreshToken"
    /\ \/ ~ParseV4Local(rKey, res.token, NoImplicit, now).ok
       \/ ~res.storeErr /\ Resolves(Embedded(res.token).Username) = {}

\* the authenticator, with no ErrorHandler, met a missing, invalid or expired token
RequestRefused ==
    /\ req.pc = "done"
    /\ ~req.skip
    /\ ~cfg.ErrorHandler
    /\ \/ ~(req.header.hasCred /\ req.header.scheme = "Bearer")
       \/ ~ParseV4Local(cfg.SymmetricKey, req.header.cred, cfg.Implicit, req.at).ok

\* C14 as claimed: every authentication failure reported to a caller, at Login,
\* at RefreshToken and at the request authenticator, carries the same code and
\* the same message.
C14_OneRejectionMessage ==
    /\ LoginRefused \/ RefreshRefused => res.err = TheRejection
    /\ RequestRefused => req.err = TheRejection

\* C14 amended: every such failure carries the code Unauthenticated; the failures
\* of Login and RefreshToken carry one message, and the failures of the request
\* authenticator carry one other message, so within an entry point the root
\* cause cannot be told apart.
C14_OneMessagePerEntryPoint ==
    /\ LoginRefused \/ RefreshRefused
        => /\ res.tok = NilPair
           /\ res.err = [code |-> "Unauthenticated",
                         msg |-> "Your credentials not valid. Please check and try again."]
    /\ RequestRefused
        => /\ ~req.handled
           /\ req.err = [code |-> "Unauthenticated",
                         msg |-> "Your provided token not valid, Please provide a valid token."]

C14_Witness ==
    /\ RequestRefused
    /\ req.header.cred \in aTokens
    /\ Expired(req.header.cred, req.at)
    /\ req.err.code = TheRejection.code
    /\ req.err.msg # TheRejection.msg

-----------------------------------------------------------------------------
(* C19: issuance is gated *)

\* the username resolved and the comparison reported a match without error
LoginGate ==
    /\ ~res.storeErr
    /\ \E row \in Resolves(res.username) :
          Compare(row, res.password) = [pass |-> TRUE, err |-> Nil]

\* the presented token verified under the refresh key
RefreshVerified == ParseV4Local(rKey, res.token, NoImplicit, now).ok

\* ... and its username resolved
RefreshGate ==
    /\ RefreshVerified
    /\ ~res.storeErr
    /\ Resolves(Embedded(res.token).Username) # {}

\* C19: Login and RefreshToken return a pair only through their gate; in every
\* other outcome they return an error and no pair, a credential-store error other
\* than not-found being returned as it is; no call returns a pair and an error.
C19_IssuanceGated ==
    /\ res.op = "Login" /\ res.tok # NilPair => LoginGate
    /\ res.op = "RefreshToken" /\ res.tok # NilPair => RefreshGate
    /\ res.op = "Login" /\ ~LoginGate => res.err # Nil /\ res.tok = NilPair
    /\ res.op = "RefreshToken" /\ ~RefreshGate => res.err # Nil /\ res.tok = NilPair
    /\ res.op = "Login" /\ res.storeErr => res.err = ErrStore
    /\ res.op = "RefreshToken" /\ RefreshVerified /\ res.storeErr => res.err = ErrStore
    /\ ~(res.tok # NilPair /\ res.err # Nil)

C19_Witness ==
    /\ res.op = "RefreshToken"
    /\ res.token \in rTokens
    /\ RefreshVerified
    /\ res.storeErr
    /\ Resolves(Embedded(res.token).Username) # {}
    /\ res.err = ErrStore
    /\ res.tok = NilPair

-----------------------------------------------------------------------------
(* C16: the claims accessor *)

\* a nil *Claims
NilClaims == [nil |-> TRUE]

\* what a caller may attach
Attachable == {ZeroClaims, UserClaims(AliceRow), UserClaims(AnonRow), NilClaims}

\* a context that was derived from no other: context.Background(), or the
\* context a request arrives with
RootContext == [parent |-> 0, attached |-> NilClaims, ctx |-> Background]

\* a request arrives with a context of its own
NewContext ==
    /\ Len(ctxs) < MaxCtx
    /\ ctxs' = Append(ctxs, RootContext)
    /\ UNCHANGED <<inflight, aKey, rKey, cfg, db, now, aTokens, rTokens, consumed, res, req>>

\* some code calls ContextWithClaims(ctx, c) on the context at i: context.WithValue
\* allocates the derived context, which remembers its parent
AttachClaims(i, c) ==
    /\ Len(ctxs) < MaxCtx
    /\ i \in DOMAIN ctxs
    /\ ctxs' = Append(ctxs, [parent |-> i, attached |-> c,
                             ctx |-> ContextWithClaims(ctxs[i].ctx, c)])
    /\ UNCHANGED <<inflight, aKey, rKey, cfg, db, now, aTokens, rTokens, consumed, res, req>>

\* the youngest context is dropped
ReleaseContext ==
    /\ ctxs # <<>>
    /\ ctxs' = SubSeq(ctxs, 1, Len(ctxs) - 1)
    /\ UNCHANGED <<inflight, aKey, rKey, cfg, db, now, aTokens, rTokens, consumed, res, req>>

InitAccessor ==
    /\ InitCommon
    /\ cfg = DefaultConfig
    /\ db = {}

NextAccessor ==
    \/ NewContext
    \/ \E i \in 1 .. MaxCtx, c \in Attachable : AttachClaims(i, c)
    \/ ReleaseContext

SpecAccessor == InitAccessor /\ [][NextAccessor]_vars

\* C16: ContextWithClaims(ctx, c) leaves ctx as it was (ClaimsFromContext(ctx)
\* gives the same before and after); ClaimsFromContext on the derived context
\* returns c; on a context no claims were ever attached to it returns a Claims
\* whose id, username and product affiliation are empty strings.
C16_ClaimsAccessor ==
    [][/\ \A i \in DOMAIN ctxs \cap DOMAIN ctxs' :
             ClaimsFromContext(ctxs'[i].ctx) = ClaimsFromContext(ctxs[i].ctx)
       /\ \A i \in DOMAIN ctxs' :
             IF ctxs'[i].parent = 0
             THEN ClaimsFromContext(ctxs'[i].ctx)
                      = [ID |-> "", Username |-> "", ProductName |-> ""]
             ELSE ClaimsFromContext(ctxs'[i].ctx) = ctxs'[i].attached]_vars

C16_Witness ==
    \E i, j \in DOMAIN ctxs :
        /\ ctxs[j].parent = i
        /\ ctxs[i].parent # 0
        /\ ctxs[i].attached = UserClaims(AliceRow)
        /\ ctxs[j].attached = UserClaims(AnonRow)
        /\ ClaimsFromContext(ctxs[i].ctx) = UserClaims(AliceRow)
        /\ ClaimsFromContext(ctxs[j].ctx) = UserClaims(AnonRow)

-----------------------------------------------------------------------------
(* C18: request isolation *)

Rids == 1 .. MaxInflight

\* the function f without its value at i
Without(f, i) == [j \in DOMAIN f \ {i} |-> f[j]]

\* echo hands a request to the chain on a goroutine of its own
Arrive(i, header, skip) ==
    /\ i \notin DOMAIN inflight
    /\ inflight' = inflight @@
            (i :> [Idle EXCEPT !.pc = "paseto", !.header = header, !.skip = skip])
    /\ UNCHANGED <<ctxs, aKey, rKey, cfg, db, now, aTokens, rTokens, consumed, res, req>>

\* request i runs the handler returned by PASETO(cfg)
StepPASETO(i) ==
    /\ i \in DOMAIN inflight
    /\ inflight[i].pc = "paseto"
    /\ inflight' = [inflight EXCEPT ![i] = PASETO(cfg, @, now)]
    /\ UNCHANGED <<ctxs, aKey, rKey, cfg, db, now, aTokens, rTokens, consumed, res, req>>

\* request i runs the handler returned by SetContextClaimsFromToken
StepSetContextClaims(i) ==
    /\ i \in DOMAIN inflight
    /\ inflight[i].pc = "next"
    /\ inflight' = [inflight EXCEPT
                        ![i] = [SetContextClaimsFromToken(@) EXCEPT !.pc = "handler"]]
    /\ UNCHANGED <<ctxs, aKey, rKey, cfg, db, now, aTokens, rTokens, consumed, res, req>>

\* request i runs the route's handler
StepHandler(i) ==
    /\ i \in DOMAIN inflight
    /\ inflight[i].pc = "handler"
    /\ inflight' = [inflight EXCEPT ![i] = Handler(@)]
    /\ UNCHANGED <<ctxs, aKey, rKey, cfg, db, now, aTokens, rTokens, consumed, res, req>>

\* the answer of request i is written and its echo.Context is released
Respond(i) ==
    /\ i \in DOMAIN inflight
    /\ inflight[i].pc = "done"
    /\ inflight' = Without(inflight, i)
    /\ UNCHANGED <<ctxs, aKey, rKey, cfg, db, now, aTokens, rTokens, consumed, res, req>>

\* requests of two identities processed at once, under the default ContextKey
\* and under another
InitConc ==
    /\ InitCommon
    /\ cfg \in {c \in Configs :
                   c.SymmetricKey = aKey /\ c.Implicit = NoImplicit /\ ~c.ErrorHandler}
    /\ db = {AliceRow, AnonRow}

NextConc ==
    \/ \E u \in Usernames : Login(u, "pw1", FALSE)
    \/ Return
    \/ \E i \in Rids, h \in {NoHeader} \cup [scheme : {"Bearer"}, hasCred : {TRUE},
                                            cred : aTokens \cup {Garbage}],
          s \in BOOLEAN : Arrive(i, h, s)
    \/ \E i \in Rids : StepPASETO(i)
    \/ \E i \in Rids : StepSetContextClaims(i)
    \/ \E i \in Rids : StepHandler(i)
    \/ \E i \in Rids : Respond(i)

SpecConc == InitConc /\ [][NextConc]_vars

\* C18 as claimed: under every interleaving of requests processed at once, each
\* handler reads the claims of the token its own request presented and verified,
\* never those of another request; a step of one request changes nothing of any
\* other request; no step changes the two symmetric keys.
C18_RequestIsolation ==
    [][/\ \A i \in DOMAIN inflight' :
             inflight'[i].handled /\ inflight'[i].verified
                 => inflight'[i].seen = Embedded(inflight'[i].header.cred)
       /\ \A i, j \in DOMAIN inflight \cap DOMAIN inflight' :
             i # j /\ inflight'[i] # inflight[i] => inflight'[j] = inflight[j]
       /\ aKey' = aKey
       /\ rKey' = rKey]_vars

====
